---- MODULE Spec2Model ----
(***************************************************************************)
(* Model of backend/server.py of ExamGenerator: the exam creation pipeline *)
(* (create_exam, generate_exam_with_ai, generate_image_based_exam) and the *)
(* grading engine (submit_exam), over the document store (db.exams,        *)
(* db.exam_results) and the temporary files on disk.                       *)
(*                                                                         *)
(* Python strings are sequences of one-character strings, so that strip(), *)
(* lower() and endswith() are computed rather than assumed.  A float score *)
(* is the exact rational it approximates, kept as a reduced fraction       *)
(* [num, den]; float rounding is not modelled.                             *)
(***************************************************************************)
EXTENDS Integers, Sequences, FiniteSets, TLC

VARIABLES exams, exam_results, files, req

vars == <<exams, exam_results, files, req>>

(***************************************************************************)
(* Bounds of the model.                                                    *)
(***************************************************************************)
MaxLen == 3        \* longest answer string
MaxResp == 2       \* most elements in a generated JSON array
MaxAnswers == 2    \* most answers in a submission
MaxImages == 2     \* most page images extracted from a PDF

(***************************************************************************)
(* Values.                                                                 *)
(***************************************************************************)
None == "None"         \* Python None
Absent == "Absent"     \* a key that a JSON object does not have

Users == {"u1", "u2"}
ExamIds == {"e1"}            \* uuid4 values available to Exam.id
ResultIds == {"r1"}          \* uuid4 values available to ExamResult.id
TmpNames == {"tmp1"}         \* names available to NamedTemporaryFile
UnknownId == "nil"           \* an id that names nothing stored

Chars == {"a", "A", "b", " "}
Whitespace == {" "}

RECURSIVE StringsOfLen(_)
StringsOfLen(n) ==
    IF n = 0 THEN {<<>>}
    ELSE {Append(s, c) : s \in StringsOfLen(n - 1), c \in Chars}

Strings == UNION {StringsOfLen(n) : n \in 0..MaxLen}

(***************************************************************************)
(* str.strip(), str.lower(), str.endswith()                                *)
(***************************************************************************)
RECURSIVE LStrip(_)
LStrip(s) ==
    IF s # <<>> /\ Head(s) \in Whitespace THEN LStrip(Tail(s)) ELSE s

RECURSIVE RStrip(_)
RStrip(s) ==
    IF s # <<>> /\ s[Len(s)] \in Whitespace
    THEN RStrip(SubSeq(s, 1, Len(s) - 1))
    ELSE s

\* strip() that forgets the right end
StripLeftOnly(s) == LStrip(s)

Strip(s) == RStrip(LStrip(s))

LowerChar(c) == IF c = "A" THEN "a" ELSE IF c = "B" THEN "b" ELSE c

Lower(s) == [i \in 1..Len(s) |-> LowerChar(s[i])]

EndsWith(s, suffix) ==
    /\ Len(s) >= Len(suffix)
    /\ SubSeq(s, Len(s) - Len(suffix) + 1, Len(s)) = suffix

(***************************************************************************)
(* What the external collaborators can hand to a request.                  *)
(***************************************************************************)
\* model_names_to_try, in preference order
ModelNames ==
    <<"gemini-2.5-pro", "gemini-2.5-flash", "gemini-2.0-flash", "gemini-pro-latest">>

\* Literal[...] of Question.question_type
QuestionTypes ==
    {"multiple_choice", "true_false", "fill_blank", "open_ended", "image_based"}

\* the keys of the type_instruction table
TypeInstructionKeys ==
    {"multiple_choice", "true_false", "fill_blank", "open_ended", "mixed"}

RequiredKeys == {"question_text", "question_type", "correct_answer"}
AllKeys == RequiredKeys \cup {"options", "explanation", "image_index"}

\* One object of the generated JSON array.  keys is the set of keys the
\* object has; a field whose key is absent holds a fixed filler that the
\* code never reads.
Elem(keys, type, answer, idx) ==
    [keys |-> keys,
     question_text |-> IF "question_text" \in keys THEN "q" ELSE Absent,
     question_type |-> IF "question_type" \in keys THEN type ELSE Absent,
     options |-> IF "options" \in keys THEN "A-E" ELSE Absent,
     correct_answer |-> IF "correct_answer" \in keys THEN answer ELSE <<>>,
     explanation |-> IF "explanation" \in keys THEN "why" ELSE Absent,
     image_index |-> IF "image_index" \in keys THEN idx ELSE 0]

Elements ==
    { Elem(RequiredKeys, "true_false", <<"a">>, 0),
      Elem(AllKeys, "image_based", <<" ", "B">>, 1),
      Elem(AllKeys, "image_based", <<" ", "B">>, MaxImages),
      Elem(RequiredKeys \ {"question_text"}, "true_false", <<"a">>, 0),
      Elem(RequiredKeys \ {"question_type"}, "true_false", <<"a">>, 0),
      Elem(RequiredKeys \ {"correct_answer"}, "true_false", <<"a">>, 0),
      Elem(RequiredKeys, "essay", <<"a">>, 0) }

RECURSIVE SeqsOfLen(_, _)
SeqsOfLen(S, n) ==
    IF n = 0 THEN {<<>>}
    ELSE {Append(s, x) : s \in SeqsOfLen(S, n - 1), x \in S}

SeqsUpTo(S, n) == UNION {SeqsOfLen(S, k) : k \in 0..n}

\* A JSON document: an array of objects, an object, or text that is no JSON.
JsonArray(items) == [kind |-> "array", items |-> items]
JsonObject == [kind |-> "object", items |-> <<>>]
NotJson == [kind |-> "garbage", items |-> <<>>]
NoDoc == [kind |-> "none", items |-> <<>>]

\* The response text, cut into the pieces the code looks at: a ``` fence,
\* a newline, and the document between them.
Fence == [tok |-> "fence", doc |-> NoDoc]
NL == [tok |-> "nl", doc |-> NoDoc]
Doc(d) == [tok |-> "doc", doc |-> d]

Arrays == {JsonArray(items) : items \in SeqsUpTo(Elements, MaxResp)}

Responses ==
    {<<Doc(d)>> : d \in Arrays \cup {JsonObject, NotJson}}
    \cup {<<Fence, NL, Doc(d), NL, Fence, NL>> :
              d \in {x \in Arrays : Len(x.items) <= 1}}
    \cup {<<Fence, NL, Doc(JsonArray(<<>>))>>, <<Fence, Doc(JsonArray(<<>>))>>,
          <<Doc(JsonArray(<<>>)), NL, Fence>>}

\* What model construction, the remote call and the response turn out to
\* be.  avail is the set of candidates whose construction succeeds: none,
\* all, or the last one alone.
AllModels == {ModelNames[i] : i \in 1..Len(ModelNames)}
AvailSets == {{}, AllModels, {ModelNames[Len(ModelNames)]}}
AiOutcomes ==
    [avail : AvailSets, callOk : {TRUE}, response : Responses]
    \cup [avail : {AllModels}, callOk : {FALSE}, response : {<<>>}]

\* The uploaded document as the extraction libraries see it.
ImagePool == <<"img0", "img1", "img2", "img3">>
PageImages == SubSeq(ImagePool, 1, MaxImages)
TextOutcomes == {<<>>, <<" ">>, <<"a", " ">>}
Pdfs ==
    [readable : {TRUE}, text : TextOutcomes,
     images : {SubSeq(PageImages, 1, n) : n \in 0..MaxImages}]
    \cup [readable : {FALSE}, text : {<<>>}, images : {<<>>}]

\* The text path never extracts images, and the image path extracts text
\* only when there are no images: what a path does not look at is not drawn.
TextPdfs == {p \in Pdfs : p.images = <<>>}
ImagePdfs == {p \in Pdfs : p.images = <<>> \/ p.text = <<>>}

(***************************************************************************)
(* Model selection and response parsing, shared by both generators.        *)
(***************************************************************************)
\* for model_name in model_names_to_try: try ... break / except ... continue
RECURSIVE TryModels(_, _)
TryModels(i, avail) ==
    IF i > Len(ModelNames) THEN None
    ELSE IF ModelNames[i] \in avail THEN ModelNames[i]
    ELSE TryModels(i + 1, avail)

SelectModel(avail) == TryModels(1, avail)

\* response.text.strip(): newlines at both ends go
RECURSIVE StripNewlines(_)
StripNewlines(t) ==
    IF t # <<>> /\ Head(t).tok = "nl" THEN StripNewlines(Tail(t))
    ELSE IF t # <<>> /\ t[Len(t)].tok = "nl"
         THEN StripNewlines(SubSeq(t, 1, Len(t) - 1))
    ELSE t

Positions(t, tok) == {i \in 1..Len(t) : t[i].tok = tok}
Min(S) == CHOOSE x \in S : \A y \in S : x <= y
Max(S) == CHOOSE x \in S : \A y \in S : x >= y

\* if response_text.startswith("```"): split("\n", 1)[1], rsplit("```", 1)[0]
\* split(...)[1] is an IndexError when the text has no newline.
StripFence(t) ==
    IF t # <<>> /\ t[1].tok = "fence"
    THEN IF Positions(t, "nl") = {}
         THEN [ok |-> FALSE, text |-> <<>>]
         ELSE LET rest == SubSeq(t, Min(Positions(t, "nl")) + 1, Len(t))
                  cut == IF Positions(rest, "fence") = {} THEN rest
                         ELSE SubSeq(rest, 1, Max(Positions(rest, "fence")) - 1)
              IN [ok |-> TRUE, text |-> cut]
    ELSE [ok |-> TRUE, text |-> t]

\* json.loads: one JSON document, white space around it allowed
JsonLoads(t) ==
    LET core == StripNewlines(t)
    IN IF Len(core) = 1 /\ core[1].tok = "doc" /\ core[1].doc.kind # "garbage"
       THEN [ok |-> TRUE, doc |-> core[1].doc]
       ELSE [ok |-> FALSE, doc |-> NoDoc]

\* q_data.get(key): None when the key is absent
Get(q_data, key) == IF key \in q_data.keys THEN q_data[key] ELSE None

\* Question(...) of generate_exam_with_ai: q_data["question_text"],
\* q_data["question_type"] and q_data["correct_answer"] raise KeyError when
\* absent, and the Literal question_type is validated.
TextQuestionBuilds(q_data) ==
    /\ RequiredKeys \subseteq q_data.keys
    /\ q_data.question_type \in QuestionTypes

TextQuestion(q_data, id) ==
    [id |-> id,
     question_text |-> q_data.question_text,
     question_type |-> q_data.question_type,
     options |-> Get(q_data, "options"),
     correct_answer |-> q_data.correct_answer,
     explanation |-> Get(q_data, "explanation"),
     image_data |-> None]

\* a conversion loop that skips an element it cannot build
TextQuestionsSkipBad(items, base) ==
    LET good == SelectSeq(items, TextQuestionBuilds)
    IN [ok |-> TRUE,
        questions |-> [i \in 1..Len(good) |-> TextQuestion(good[i], base + i)]]

\* for q_data in questions_data: questions.append(Question(...))
\* ids are fresh uuid4 values: the numbers after base
TextQuestions(items, base) ==
    IF \A i \in 1..Len(items) : TextQuestionBuilds(items[i])
    THEN [ok |-> TRUE,
          questions |-> [i \in 1..Len(items) |-> TextQuestion(items[i], base + i)]]
    ELSE [ok |-> FALSE, questions |-> <<>>]

\* images[img_idx] of Python: a negative index counts from the end
PyIndexOk(seq, i) == -Len(seq) <= i /\ i < Len(seq)
PyIndex(seq, i) == IF i >= 0 THEN seq[i + 1] ELSE seq[Len(seq) + i + 1]

\* img_idx = q_data.get("image_index", 0)
ImgIdx(q_data) == IF "image_index" \in q_data.keys THEN q_data.image_index ELSE 0

\* if img_idx < len(images):
ImageKept(q_data, images) == ImgIdx(q_data) < Len(images)

ImageQuestionBuilds(q_data, images) ==
    /\ {"question_text", "correct_answer"} \subseteq q_data.keys
    /\ PyIndexOk(images, ImgIdx(q_data))

ImageQuestion(q_data, images, id) ==
    [id |-> id,
     question_text |-> q_data.question_text,
     question_type |-> "image_based",
     options |-> Get(q_data, "options"),
     correct_answer |-> q_data.correct_answer,
     explanation |-> Get(q_data, "explanation"),
     image_data |-> PyIndex(images, ImgIdx(q_data))]

\* for q_data in questions_data: ... if img_idx < len(images): append
RECURSIVE ImageQuestionsFrom(_, _, _, _)
ImageQuestionsFrom(items, images, base, acc) ==
    IF items = <<>> THEN [ok |-> TRUE, questions |-> acc]
    ELSE IF ~ImageKept(Head(items), images)
         THEN ImageQuestionsFrom(Tail(items), images, base, acc)
    ELSE IF ~ImageQuestionBuilds(Head(items), images)
         THEN [ok |-> FALSE, questions |-> <<>>]
    ELSE ImageQuestionsFrom(Tail(items), images, base,
             Append(acc, ImageQuestion(Head(items), images, base + Len(acc) + 1)))

ImageQuestions(items, images, base) == ImageQuestionsFrom(items, images, base, <<>>)

(***************************************************************************)
(* The two generators.  A result says whether questions were returned or   *)
(* an HTTPException left the function, with its status, and what the call  *)
(* got to: the model chosen, whether generate_content was invoked, the     *)
(* response text received.                                                 *)
(***************************************************************************)
GenOk(model, response, questions) ==
    [ok |-> TRUE, status |-> 200, model |-> model, called |-> TRUE,
     response |-> response, questions |-> questions]

GenFail(status, model, called, response) ==
    [ok |-> FALSE, status |-> status, model |-> model, called |-> called,
     response |-> response, questions |-> <<>>]

\* except Exception as e: raise HTTPException(status_code=500, ...)
\* An HTTPException raised inside the try block is an Exception too.
WrapException(r) == IF r.ok THEN r ELSE [r EXCEPT !.status = 500]

\* the body of the try block of generate_exam_with_ai
GenerateExamWithAiBody(pdf_text, exam_type, ai, base) ==
    IF exam_type \notin TypeInstructionKeys
    THEN GenFail(500, None, FALSE, <<>>)          \* KeyError
    ELSE
    LET model == SelectModel(ai.avail) IN
    IF model = None
    THEN GenFail(500, None, FALSE, <<>>)          \* raise HTTPException(500)
    ELSE IF ~ai.callOk
    THEN GenFail(500, model, TRUE, <<>>)          \* generate_content raises
    ELSE
    LET fenced == StripFence(StripNewlines(ai.response))
        loaded == JsonLoads(fenced.text)
    IN IF ~fenced.ok \/ ~loaded.ok \/ loaded.doc.kind # "array"
       THEN GenFail(500, model, TRUE, ai.response)
       ELSE LET built == TextQuestions(loaded.doc.items, base)
            IN IF built.ok
               THEN GenOk(model, ai.response, built.questions)
               ELSE GenFail(500, model, TRUE, ai.response)

GenerateExamWithAi(pdf_text, exam_type, ai, base) ==
    WrapException(GenerateExamWithAiBody(pdf_text, exam_type, ai, base))

\* the body of the try block of generate_image_based_exam, after the
\* fallback branch
GenerateFromImages(images, ai, base) ==
    LET model == SelectModel(ai.avail) IN
    IF model = None
    THEN GenFail(500, None, FALSE, <<>>)
    ELSE IF ~ai.callOk
    THEN GenFail(500, model, TRUE, <<>>)
    ELSE
    LET fenced == StripFence(StripNewlines(ai.response))
        loaded == JsonLoads(fenced.text)
    IN IF ~fenced.ok \/ ~loaded.ok \/ loaded.doc.kind # "array"
       THEN GenFail(500, model, TRUE, ai.response)
       ELSE LET built == ImageQuestions(loaded.doc.items, images, base)
            IN IF built.ok
               THEN GenOk(model, ai.response, built.questions)
               ELSE GenFail(500, model, TRUE, ai.response)

\* no fallback: an empty image list is an error
ImageFallbackRaises(pdf, ai, base) == GenFail(500, None, FALSE, <<>>)

\* if not images: fall back to a text-based exam
ImageFallback(pdf, ai, base) ==
    IF ~pdf.readable
    THEN GenFail(500, None, FALSE, <<>>)          \* extract_text_from_pdf raises
    ELSE IF Strip(pdf.text) = <<>>
    THEN GenFail(400, None, FALSE, <<>>)          \* raise HTTPException(400)
    ELSE GenerateExamWithAi(pdf.text, "multiple_choice", ai, base)

GenerateImageBasedExam(pdf, ai, base) ==
    WrapException(IF pdf.images = <<>>
                  THEN ImageFallback(pdf, ai, base)
                  ELSE GenerateFromImages(pdf.images, ai, base))

(***************************************************************************)
(* Grading: the evaluation loop of submit_exam.                            *)
(***************************************************************************)
\* answer.user_answer.strip().lower() == question["correct_answer"].strip().lower()
IsCorrect(user_answer, correct_answer) ==
    Lower(Strip(user_answer)) = Lower(Strip(correct_answer))

\* next((q for q in exam["questions"] if q["id"] == answer.question_id), None)
FindQuestion(questions, question_id) ==
    LET hits == {i \in 1..Len(questions) : questions[i].id = question_id}
    IN IF hits = {} THEN 0 ELSE Min(hits)

FeedbackRecord(answer, question) ==
    [question_id |-> answer.question_id,
     is_correct |-> IsCorrect(answer.user_answer, question.correct_answer),
     correct_answer |-> question.correct_answer,
     user_answer |-> answer.user_answer,
     explanation |-> question.explanation]

\* for answer in submission.answers: ...
RECURSIVE Evaluate(_, _, _, _)
Evaluate(answers, questions, correct_count, feedback) ==
    IF answers = <<>>
    THEN [correct_count |-> correct_count, feedback |-> feedback]
    ELSE LET answer == Head(answers)
             at == FindQuestion(questions, answer.question_id)
         IN IF at = 0
            THEN Evaluate(Tail(answers), questions, correct_count, feedback)
            ELSE LET fb == FeedbackRecord(answer, questions[at])
                 IN Evaluate(Tail(answers), questions,
                             IF fb.is_correct THEN correct_count + 1
                             ELSE correct_count,
                             Append(feedback, fb))

RECURSIVE GCD(_, _)
GCD(a, b) == IF b = 0 THEN a ELSE GCD(b, a % b)

\* the rational n/d in lowest terms
Frac(n, d) == LET g == GCD(n, d) IN [num |-> n \div g, den |-> d \div g]

\* floor division in place of true division
ScoreFloorDiv(correct_count, total_questions) ==
    IF total_questions > 0
    THEN Frac((correct_count \div total_questions) * 100, 1)
    ELSE Frac(0, 1)

\* (correct_count / total_questions) * 100 if total_questions > 0 else 0
Score(correct_count, total_questions) ==
    IF total_questions > 0
    THEN LET ratio == Frac(correct_count, total_questions)
         IN Frac(ratio.num * 100, ratio.den)
    ELSE Frac(0, 1)

\* the denominator taken from the submission instead of the exam
GradeExamOverAnswers(id, exam, user, answers) ==
    LET graded == Evaluate(answers, exam.questions, 0, <<>>)
        total_questions == Len(answers)
    IN [id |-> id,
        exam_id |-> exam.id,
        user_id |-> user,
        score |-> Score(graded.correct_count, total_questions),
        total_questions |-> total_questions,
        correct_answers |-> graded.correct_count,
        answers |-> answers,
        feedback |-> graded.feedback]

\* ExamResult(...) of submit_exam
GradeExam(id, exam, user, answers) ==
    LET graded == Evaluate(answers, exam.questions, 0, <<>>)
        total_questions == Len(exam.questions)
    IN [id |-> id,
        exam_id |-> exam.id,
        user_id |-> user,
        score |-> Score(graded.correct_count, total_questions),
        total_questions |-> total_questions,
        correct_answers |-> graded.correct_count,
        answers |-> answers,
        feedback |-> graded.feedback]

(***************************************************************************)
(* Requests.  req is the request being handled, or the last one handled:   *)
(* its inputs, what it saw of its collaborators, and once pc = "done" the  *)
(* HTTP status it was answered with.                                       *)
(***************************************************************************)
Idle == [op |-> "none", pc |-> "idle"]

Filenames == {<<"x", ".", "p", "d", "f">>, <<"x", ".", "t", "x", "t">>}
PdfSuffix == <<".", "p", "d", "f">>
ExamTypes == {"true_false", "image_based", "essay"}
Difficulties == {"medium"}
NumQuestions == {1}
UserAnswers == {<<"A">>, <<"b">>}

FreeExamIds == ExamIds \ {e.id : e \in exams}
FreeResultIds == ResultIds \ {r.id : r \in exam_results}
FreeTmpNames == TmpNames \ files

\* the question ids in use; a new uuid4 is none of them
StoredQuestionIds == UNION {{e.questions[i].id : i \in 1..Len(e.questions)} : e \in exams}
Base == IF StoredQuestionIds = {} THEN 0 ELSE Max(StoredQuestionIds)

NoRequestInFlight == req.pc = "idle"

\* placeholders in the log of a request that has not got that far
NoPdf == [readable |-> FALSE, text |-> <<>>, images |-> <<>>]
NoAi == [avail |-> {}, callOk |-> FALSE, response |-> <<>>]

\* create_exam up to the creation of the temporary file
CreateExamBegin(user, filename, exam_type, difficulty, num_questions) ==
    /\ NoRequestInFlight
    /\ FreeExamIds # {}
    /\ FreeTmpNames # {}
    /\ LET r == [op |-> "create", pc |-> "reading", user |-> user,
                 filename |-> filename, exam_type |-> exam_type,
                 difficulty |-> difficulty, num_questions |-> num_questions,
                 tmp |-> None, pdf |-> NoPdf, ai |-> NoAi,
                 gen |-> GenFail(0, None, FALSE, <<>>),
                 stage |-> "validate", exam_id |-> None, status |-> 0]
       IN IF ~EndsWith(filename, PdfSuffix)
          THEN /\ req' = [r EXCEPT !.pc = "done", !.status = 400]
               /\ UNCHANGED files
          ELSE LET tmp == CHOOSE t \in FreeTmpNames : TRUE
               IN /\ files' = files \cup {tmp}
                  /\ req' = [r EXCEPT !.tmp = tmp, !.stage = "read"]
    /\ UNCHANGED <<exams, exam_results>>

\* content = await pdf.read(); tmp_file.write(content), inside the with
\* block and before the try block
CreateExamRead ==
    /\ req.op = "create" /\ req.pc = "reading"
    /\ \E ok \in BOOLEAN :
          req' = IF ok THEN [req EXCEPT !.pc = "generating", !.stage = "generate"]
                 ELSE [req EXCEPT !.pc = "done", !.status = 500]
    /\ UNCHANGED <<exams, exam_results, files>>

\* questions were returned: build the Exam and go on to insert it
\* an exception left the try block: finally unlinks the file
AfterGenerate(r, g) ==
    IF g.ok
    THEN /\ req' = [r EXCEPT !.gen = g, !.pc = "inserting", !.stage = "insert",
                             !.exam_id = CHOOSE id \in FreeExamIds : TRUE]
         /\ UNCHANGED files
    ELSE /\ req' = [r EXCEPT !.gen = g, !.pc = "done", !.status = g.status]
         /\ files' = files \ {r.tmp}

\* if exam_type == "image_based": generate_image_based_exam(tmp_path, ...)
CreateExamGenerateImage ==
    /\ req.op = "create" /\ req.pc = "generating"
    /\ req.exam_type = "image_based"
    /\ \E pdf \in ImagePdfs, ai \in AiOutcomes :
          AfterGenerate([req EXCEPT !.pdf = pdf, !.ai = ai],
                        GenerateImageBasedExam(pdf, ai, Base))
    /\ UNCHANGED <<exams, exam_results>>

\* pdf_text = extract_text_from_pdf(tmp_path)
\* if not pdf_text.strip(): raise HTTPException(status_code=400, ...)
\* questions = await generate_exam_with_ai(pdf_text, exam_type, ...)
ExtractAndGenerate(pdf, exam_type, ai, base) ==
    IF ~pdf.readable THEN GenFail(500, None, FALSE, <<>>)
    ELSE IF Strip(pdf.text) = <<>> THEN GenFail(400, None, FALSE, <<>>)
    ELSE GenerateExamWithAi(pdf.text, exam_type, ai, base)

\* else: the text branch of create_exam
CreateExamGenerateText ==
    /\ req.op = "create" /\ req.pc = "generating"
    /\ req.exam_type # "image_based"
    /\ \E pdf \in TextPdfs, ai \in AiOutcomes :
          AfterGenerate([req EXCEPT !.pdf = pdf, !.ai = ai],
                        ExtractAndGenerate(pdf, req.exam_type, ai, Base))
    /\ UNCHANGED <<exams, exam_results>>

\* Exam(...) of create_exam
NewExam(r) ==
    [id |-> r.exam_id,
     user_id |-> r.user,
     title |-> <<"Exam from ", r.filename>>,
     exam_type |-> r.exam_type,
     difficulty |-> r.difficulty,
     questions |-> r.gen.questions,
     pdf_name |-> r.filename]

\* await db.exams.insert_one(exam_doc); return exam; finally: os.unlink
CreateExamInsert ==
    /\ req.op = "create" /\ req.pc = "inserting"
    /\ \E ok \in BOOLEAN :
          IF ok
          THEN /\ exams' = exams \cup {NewExam(req)}
               /\ req' = [req EXCEPT !.pc = "done", !.stage = "ok", !.status = 200]
          ELSE /\ UNCHANGED exams
               /\ req' = [req EXCEPT !.pc = "done", !.status = 500]
    /\ files' = files \ {req.tmp}
    /\ UNCHANGED exam_results

\* submit_exam
SubmitExam(user, exam_id, answers) ==
    /\ NoRequestInFlight
    /\ FreeResultIds # {}
    /\ LET found == {e \in exams : e.id = exam_id /\ e.user_id = user}
           r == [op |-> "submit", pc |-> "done", user |-> user,
                 exam_id |-> exam_id, answers |-> answers]
       IN IF found = {}
          THEN /\ req' = r @@ [status |-> 404, stage |-> "find"]
               /\ UNCHANGED exam_results
          ELSE LET exam == CHOOSE e \in found : TRUE
                   result == GradeExam(CHOOSE id \in FreeResultIds : TRUE,
                                       exam, user, answers)
               IN \E ok \in BOOLEAN :
                     IF ok
                     THEN /\ exam_results' = exam_results \cup {result}
                          /\ req' = r @@ [status |-> 200, stage |-> "ok", result |-> result]
                     ELSE /\ UNCHANGED exam_results
                          /\ req' = r @@ [status |-> 500, stage |-> "insert", result |-> result]
    /\ UNCHANGED <<exams, files>>

\* the response has been sent: the next request can be taken up
Respond ==
    /\ req.pc = "done"
    /\ req' = Idle
    /\ UNCHANGED <<exams, exam_results, files>>

Answers(question_ids) == [question_id : question_ids, user_answer : UserAnswers]

Init ==
    /\ exams = {}
    /\ exam_results = {}
    /\ files = {}
    /\ req = Idle

Next ==
    \/ \E user \in Users, filename \in Filenames, exam_type \in ExamTypes,
          difficulty \in Difficulties, num_questions \in NumQuestions :
          CreateExamBegin(user, filename, exam_type, difficulty, num_questions)
    \/ CreateExamRead
    \/ CreateExamGenerateImage
    \/ CreateExamGenerateText
    \/ CreateExamInsert
    \/ /\ NoRequestInFlight
       /\ \E user \in Users, exam_id \in ExamIds \cup {UnknownId}, n \in 0..MaxAnswers :
             \E answers \in [1..n -> Answers(StoredQuestionIds \cup {0})] :
                SubmitExam(user, exam_id, answers)
    \/ Respond

Spec == Init /\ [][Next]_vars

(***************************************************************************)
(* Grading on its own: one stored exam with one question, whose correct    *)
(* answer is any string up to MaxLen, is answered with any such string.    *)
(***************************************************************************)
OneQuestionExam(correct_answer) ==
    [id |-> CHOOSE id \in ExamIds : TRUE,
     user_id |-> "u1",
     title |-> <<"Exam from ", <<"x", ".", "p", "d", "f">>>>,
     exam_type |-> "open_ended",
     difficulty |-> "medium",
     questions |-> <<TextQuestion(Elem(RequiredKeys, "open_ended", correct_answer, 0), 1)>>,
     pdf_name |-> <<"x", ".", "p", "d", "f">>]

InitGrade ==
    /\ \E correct_answer \in Strings : exams = {OneQuestionExam(correct_answer)}
    /\ exam_results = {}
    /\ files = {}
    /\ req = Idle

NextGrade ==
    \/ /\ NoRequestInFlight
       /\ \E exam \in exams, user_answer \in Strings :
             SubmitExam(exam.user_id, exam.id,
                        <<[question_id |-> exam.questions[1].id,
                           user_answer |-> user_answer]>>)
    \/ Respond

SpecGrade == InitGrade /\ [][NextGrade]_vars

(***************************************************************************)
(* The image conversion on its own: generate_image_based_exam is handed a  *)
(* PDF with at least one page image and a response that is a JSON array of *)
(* elements with every key, whose image_index is any integer from below    *)
(* -N to N, or is absent.                                                  *)
(***************************************************************************)
ImageIndexes == (0 - MaxImages - 1)..MaxImages

ImageElements ==
    {Elem(AllKeys, "image_based", <<"a">>, idx) : idx \in ImageIndexes}
    \cup {Elem(AllKeys \ {"image_index"}, "image_based", <<"a">>, 0)}

InitImage ==
    /\ exams = {}
    /\ exam_results = {}
    /\ files = {}
    /\ \E n \in 1..MaxImages, items \in SeqsUpTo(ImageElements, MaxResp) :
          req = [op |-> "generate_image", pc |-> "generating",
                 pdf |-> [readable |-> TRUE, text |-> <<>>,
                          images |-> SubSeq(PageImages, 1, n)],
                 ai |-> [avail |-> AllModels, callOk |-> TRUE,
                         response |-> <<Doc(JsonArray(items))>>],
                 gen |-> GenFail(0, None, FALSE, <<>>)]

\* questions = await generate_image_based_exam(tmp_path, ...)
GenerateImage ==
    /\ req.op = "generate_image" /\ req.pc = "generating"
    /\ req' = [req EXCEPT !.pc = "done",
                          !.gen = GenerateImageBasedExam(req.pdf, req.ai, 0)]
    /\ UNCHANGED <<exams, exam_results, files>>

NextImage == GenerateImage

SpecImage == InitImage /\ [][NextImage]_vars

(***************************************************************************)
(* The endpoints over the stored exams and results: get_exams, get_exam,   *)
(* delete_exam, submit_exam, get_results, get_result, one request at a     *)
(* time, from a store that earlier requests of the two users have filled.  *)
(***************************************************************************)
\* find_one({"id": id}): a filter that leaves the owner out
FindOneAnyUser(collection, id, user_id) == {d \in collection : d.id = id}

\* find_one({"id": id, "user_id": user_id}); the empty set is None
FindOne(collection, id, user_id) ==
    {d \in collection : d.id = id /\ d.user_id = user_id}

\* find({"user_id": user_id}).to_list(1000)
Find(collection, user_id) == {d \in collection : d.user_id = user_id}

\* delete_one({"id": id, "user_id": user_id})
DeleteOne(collection, id, user_id) == collection \ FindOne(collection, id, user_id)

\* a cascade that removes nothing
DeleteManyNothing(collection, exam_id) == collection

\* delete_many({"exam_id": exam_id})
DeleteMany(collection, exam_id) == {d \in collection : d.exam_id # exam_id}

ExamNotFound == "Exam not found"
ResultNotFound == "Result not found"

\* the log of a finished request other than create_exam and submit_exam
Answered(op, user, id, status, detail, body) ==
    [op |-> op, pc |-> "done", user |-> user, id |-> id,
     status |-> status, detail |-> detail, body |-> body, deleted_results |-> 0]

\* get_exams
GetExams(user) ==
    /\ NoRequestInFlight
    /\ req' = Answered("get_exams", user, None, 200, "", Find(exams, user))
    /\ UNCHANGED <<exams, exam_results, files>>

\* get_exam
GetExam(user, exam_id) ==
    /\ NoRequestInFlight
    /\ LET exam == FindOne(exams, exam_id, user)
       IN req' = IF exam = {}
                 THEN Answered("get_exam", user, exam_id, 404, ExamNotFound, {})
                 ELSE Answered("get_exam", user, exam_id, 200, "", exam)
    /\ UNCHANGED <<exams, exam_results, files>>

\* delete_exam
DeleteExam(user, exam_id) ==
    /\ NoRequestInFlight
    /\ LET exam == FindOne(exams, exam_id, user)
       IN IF exam = {}
          THEN /\ req' = Answered("delete_exam", user, exam_id, 404, ExamNotFound, {})
               /\ UNCHANGED <<exams, exam_results>>
          ELSE /\ exams' = DeleteOne(exams, exam_id, user)
               /\ exam_results' = DeleteMany(exam_results, exam_id)
               /\ req' = [Answered("delete_exam", user, exam_id, 200,
                                   "Exam deleted successfully", {})
                            EXCEPT !.deleted_results =
                               Cardinality(exam_results
                                              \ DeleteMany(exam_results, exam_id))]
    /\ UNCHANGED files

\* get_results
GetResults(user) ==
    /\ NoRequestInFlight
    /\ req' = Answered("get_results", user, None, 200, "", Find(exam_results, user))
    /\ UNCHANGED <<exams, exam_results, files>>

\* get_result
GetResult(user, result_id) ==
    /\ NoRequestInFlight
    /\ LET result == FindOne(exam_results, result_id, user)
       IN req' = IF result = {}
                 THEN Answered("get_result", user, result_id, 404, ResultNotFound, {})
                 ELSE Answered("get_result", user, result_id, 200, "", result)
    /\ UNCHANGED <<exams, exam_results, files>>

\* uuid4 values of the exams and results that earlier requests stored
StoreExamIds == {"e1", "e2"}
EarlierResultIds == {"r2", "r3"}

\* the exam a create_exam request of the user stored: one true_false
\* question, whose id is that of no other exam
EarlierExam(id, user) ==
    NewExam([exam_id |-> id, user |-> user,
             filename |-> <<"x", ".", "p", "d", "f">>,
             exam_type |-> "true_false", difficulty |-> "medium",
             gen |-> [questions |->
                         <<TextQuestion(Elem(RequiredKeys, "true_false", <<"a">>, 0),
                                        IF id = "e1" THEN 1 ELSE 2)>>]])

\* the result a submit_exam request of the owner of the exam stored
EarlierResult(id, exam) ==
    GradeExam(id, exam, exam.user_id,
              <<[question_id |-> exam.questions[1].id, user_answer |-> <<"A">>]>>)

InitStore ==
    /\ \E owner \in [StoreExamIds -> Users \cup {None}] :
          exams = {EarlierExam(id, owner[id]) :
                      id \in {i \in StoreExamIds : owner[i] # None}}
    /\ \E of \in [EarlierResultIds -> StoreExamIds \cup {None}] :
          /\ \A id \in EarlierResultIds :
                of[id] # None => \E e \in exams : e.id = of[id]
          /\ exam_results =
                {EarlierResult(id, CHOOSE e \in exams : e.id = of[id]) :
                    id \in {i \in EarlierResultIds : of[i] # None}}
    /\ files = {}
    /\ req = Idle

NextStore ==
    \/ \E user \in Users : GetExams(user)
    \/ \E user \in Users, exam_id \in StoreExamIds \cup {UnknownId} :
          GetExam(user, exam_id)
    \/ \E user \in Users, exam_id \in StoreExamIds \cup {UnknownId} :
          DeleteExam(user, exam_id)
    \/ /\ NoRequestInFlight
       /\ \E user \in Users, exam_id \in StoreExamIds \cup {UnknownId},
             question_id \in StoredQuestionIds \cup {0} :
             SubmitExam(user, exam_id,
                        <<[question_id |-> question_id, user_answer |-> <<"A">>]>>)
    \/ \E user \in Users : GetResults(user)
    \/ \E user \in Users,
          result_id \in ResultIds \cup EarlierResultIds \cup {UnknownId} :
          GetResult(user, result_id)
    \/ Respond

SpecStore == InitStore /\ [][NextStore]_vars

(***************************************************************************)
(* Model selection and the remote call, one step of the code at a time, as *)
(* both generators run them.  avail is the set of candidates whose         *)
(* construction succeeds; tried lists the candidates whose construction    *)
(* was attempted; calls counts the invocations of generate_content.        *)
(***************************************************************************)
Generators == {"generate_exam_with_ai", "generate_image_based_exam"}

\* the loop is left: after the last candidate, or by break
LoopEnds(r) == r.i = Len(ModelNames)

\* model = genai.GenerativeModel(model_name) succeeds, and no break follows
ConstructedNoBreak(r, model_name) ==
    [r EXCEPT !.tried = Append(@, model_name), !.model = model_name,
              !.i = @ + 1,
              !.pc = IF LoopEnds(r) THEN "selected" ELSE "selecting"]

\* model = genai.GenerativeModel(model_name) succeeds; break
Constructed(r, model_name) ==
    [r EXCEPT !.tried = Append(@, model_name), !.model = model_name,
              !.pc = "selected"]

\* genai.GenerativeModel(model_name) raises; except Exception: continue
NotConstructed(r, model_name) ==
    [r EXCEPT !.tried = Append(@, model_name),
              !.i = @ + 1,
              !.pc = IF LoopEnds(r) THEN "selected" ELSE "selecting"]

InitSelect ==
    /\ exams = {}
    /\ exam_results = {}
    /\ files = {}
    /\ \E generator \in Generators, avail \in SUBSET AllModels,
          callOk \in BOOLEAN, parses \in BOOLEAN :
          req = [op |-> generator,
                 pc |-> IF generator = "generate_exam_with_ai"
                        THEN "listing" ELSE "selecting",
                 avail |-> avail, callOk |-> callOk, parses |-> parses,
                 i |-> 1, tried |-> <<>>, model |-> None, calls |-> 0,
                 status |-> 0, error |-> None]

\* try: models = genai.list_models() / except: logging.warning(...)
ListModels ==
    /\ req.op = "generate_exam_with_ai" /\ req.pc = "listing"
    /\ req' = [req EXCEPT !.pc = "selecting"]
    /\ UNCHANGED <<exams, exam_results, files>>

\* one pass of: for model_name in model_names_to_try
TryModel ==
    /\ req.op \in Generators /\ req.pc = "selecting"
    /\ LET model_name == ModelNames[req.i]
       IN req' = IF model_name \in req.avail
                 THEN Constructed(req, model_name)
                 ELSE NotConstructed(req, model_name)
    /\ UNCHANGED <<exams, exam_results, files>>

\* if not model: raise HTTPException(status_code=500, ...)
CheckModel ==
    /\ req.op \in Generators /\ req.pc = "selected"
    /\ req' = IF req.model = None
              THEN [req EXCEPT !.pc = "done", !.status = 500, !.error = "no_model"]
              ELSE [req EXCEPT !.pc = "calling"]
    /\ UNCHANGED <<exams, exam_results, files>>

\* response = model.generate_content(...); an exception leaves through the
\* except clause of the generator
GenerateContent ==
    /\ req.op \in Generators /\ req.pc = "calling"
    /\ req' = IF req.callOk
              THEN [req EXCEPT !.calls = @ + 1, !.pc = "parsing"]
              ELSE [req EXCEPT !.calls = @ + 1, !.pc = "done",
                               !.status = 500, !.error = "call"]
    /\ UNCHANGED <<exams, exam_results, files>>

\* the response is parsed and converted; return questions, or an exception
\* leaves through the except clause of the generator
ParseResponse ==
    /\ req.op \in Generators /\ req.pc = "parsing"
    /\ req' = IF req.parses
              THEN [req EXCEPT !.pc = "done", !.status = 200]
              ELSE [req EXCEPT !.pc = "done", !.status = 500, !.error = "parse"]
    /\ UNCHANGED <<exams, exam_results, files>>

NextSelect ==
    \/ ListModels
    \/ TryModel
    \/ CheckModel
    \/ GenerateContent
    \/ ParseResponse

SpecSelect == InitSelect /\ [][NextSelect]_vars

(***************************************************************************)
(* Concurrent requests.  The handlers are coroutines on one event loop:    *)
(* a handler runs alone from one await to the next, and at an await of a   *)
(* store call any other handler may run.  Here req maps each request being *)
(* handled to its log; every request is a submit_exam or a delete_exam on  *)
(* the one stored exam.                                                    *)
(***************************************************************************)
Requests == {"q1", "q2", "q3"}

\* the uuid4 that ExamResult() draws in a request: one of its own
NewResultId(q) == CASE q = "q1" -> "r1" [] q = "q2" -> "r2" [] OTHER -> "r3"

InitConcurrent ==
    /\ exams = {EarlierExam("e1", "u1")}
    /\ exam_results = {}
    /\ files = {}
    /\ req = [q \in Requests |-> Idle]

\* submit_exam up to the await of insert_one: the exam is read and graded
SubmitExamFind(q, user, exam_id, answers) ==
    /\ req[q].pc = "idle"
    /\ LET found == FindOne(exams, exam_id, user)
           r == [op |-> "submit", user |-> user, exam_id |-> exam_id]
       IN req' = [req EXCEPT ![q] =
                    IF found = {}
                    THEN r @@ [pc |-> "done", status |-> 404]
                    ELSE r @@ [pc |-> "inserting", status |-> 0,
                               result |-> GradeExam(NewResultId(q),
                                                    CHOOSE e \in found : TRUE,
                                                    user, answers)]]
    /\ UNCHANGED <<exams, exam_results, files>>

\* await db.exam_results.insert_one(result_doc); return result
SubmitExamInsert(q) ==
    /\ req[q].op = "submit" /\ req[q].pc = "inserting"
    /\ exam_results' = exam_results \cup {req[q].result}
    /\ req' = [req EXCEPT ![q].pc = "done", ![q].status = 200]
    /\ UNCHANGED <<exams, files>>

\* delete_exam up to the await of delete_one
DeleteExamFind(q, user, exam_id) ==
    /\ req[q].pc = "idle"
    /\ LET r == [op |-> "delete_exam", user |-> user, exam_id |-> exam_id]
       IN req' = [req EXCEPT ![q] =
                    IF FindOne(exams, exam_id, user) = {}
                    THEN r @@ [pc |-> "done", status |-> 404]
                    ELSE r @@ [pc |-> "deleting", status |-> 0]]
    /\ UNCHANGED <<exams, exam_results, files>>

\* result = await db.exams.delete_one(...); if result.deleted_count == 0: 404
DeleteExamDeleteOne(q) ==
    /\ req[q].op = "delete_exam" /\ req[q].pc = "deleting"
    /\ exams' = DeleteOne(exams, req[q].exam_id, req[q].user)
    /\ req' = IF exams' = exams
              THEN [req EXCEPT ![q].pc = "done", ![q].status = 404]
              ELSE [req EXCEPT ![q].pc = "cascading"]
    /\ UNCHANGED <<exam_results, files>>

\* await db.exam_results.delete_many({"exam_id": exam_id}); return
DeleteExamDeleteMany(q) ==
    /\ req[q].op = "delete_exam" /\ req[q].pc = "cascading"
    /\ exam_results' = DeleteMany(exam_results, req[q].exam_id)
    /\ req' = [req EXCEPT ![q].pc = "done", ![q].status = 200]
    /\ UNCHANGED <<exams, files>>

NextConcurrent ==
    \/ \E q \in Requests, user \in Users, exam_id \in ExamIds,
          question_id \in StoredQuestionIds \cup {0} :
          SubmitExamFind(q, user, exam_id,
                         <<[question_id |-> question_id, user_answer |-> <<"A">>]>>)
    \/ \E q \in Requests : SubmitExamInsert(q)
    \/ \E q \in Requests, user \in Users, exam_id \in ExamIds :
          DeleteExamFind(q, user, exam_id)
    \/ \E q \in Requests : DeleteExamDeleteOne(q)
    \/ \E q \in Requests : DeleteExamDeleteMany(q)

SpecConcurrent == InitConcurrent /\ [][NextConcurrent]_vars

(***************************************************************************)
(* Properties.                                                             *)
(***************************************************************************)
SubmitGraded == req.op = "submit" /\ req.pc = "done" /\ req.stage \in {"ok", "insert"}
CreateDone == req.op = "create" /\ req.pc = "done"

QuestionIdsOf(exam) == {exam.questions[i].id : i \in 1..Len(exam.questions)}
ExamOf(exam_id) == CHOOSE e \in exams : e.id = exam_id

\* C1: every ExamResult has correct_answers <= total_questions, and so a
\* score between 0 and 100, whatever the submission (also one that names a
\* question id twice).
C1_CorrectWithinTotal ==
    \A r \in exam_results :
       /\ r.correct_answers <= r.total_questions
       /\ 0 <= r.score.num
       /\ r.score.num <= 100 * r.score.den

\* C2: the score of every ExamResult is 100 * correct_answers /
\* total_questions when the exam has a question and 0 when it has none, and
\* grading an exam without questions is answered without an error.
C2_ScoreIsPercentage ==
    /\ \A r \in exam_results :
          /\ r.score.den > 0
          /\ r.total_questions > 0 =>
                r.score.num * r.total_questions = 100 * r.correct_answers * r.score.den
          /\ r.total_questions = 0 => r.score.num = 0
    /\ (SubmitGraded /\ req.stage = "ok") => req.status = 200

C2_Witness ==
    /\ SubmitGraded /\ req.status = 200
    /\ \E r \in exam_results :
          r.total_questions = 0 /\ r.answers # <<>> /\ r.score.num = 0

\* The text between the first and the last character that is no white space.
Trimmed(s) ==
    LET solid == {i \in 1..Len(s) : s[i] \notin Whitespace}
    IN IF solid = {} THEN <<>> ELSE SubSeq(s, Min(solid), Max(solid))

SameLetter(c, d) == c = d \/ {c, d} \in {{"a", "A"}, {"b", "B"}}

SameAnswer(u, c) ==
    /\ Len(Trimmed(u)) = Len(Trimmed(c))
    /\ \A i \in 1..Len(Trimmed(u)) : SameLetter(Trimmed(u)[i], Trimmed(c)[i])

\* C3: an answer to a question of the exam is marked correct exactly when
\* it equals the stored correct answer once white space at both ends is
\* removed and letter case is ignored; any other difference, white space
\* inside the answer included, makes it incorrect.
C3_CorrectIffSameAnswer ==
    SubmitGraded =>
       /\ Len(req.result.feedback) = Len(req.answers)
       /\ \A i \in 1..Len(req.result.feedback) :
             LET fb == req.result.feedback[i]
                 question == ExamOf(req.exam_id).questions[1]
             IN /\ fb.user_answer = req.answers[i].user_answer
                /\ fb.correct_answer = question.correct_answer
                /\ fb.is_correct <=> SameAnswer(fb.user_answer, fb.correct_answer)
                /\ req.result.correct_answers = IF fb.is_correct THEN 1 ELSE 0

C3_Witness ==
    /\ SubmitGraded
    /\ req.result.feedback[1].is_correct
    /\ req.result.feedback[1].user_answer = <<" ", "A">>
    /\ req.result.feedback[1].correct_answer = <<"a", " ", " ">>

\* the answers of a submission that name a question of the exam
Matched(answers, exam) ==
    SelectSeq(answers, LAMBDA a : a.question_id \in QuestionIdsOf(exam))

CorrectAnswerOf(exam, question_id) ==
    (CHOOSE q \in {exam.questions[i] : i \in 1..Len(exam.questions)} :
        q.id = question_id).correct_answer

\* C4: an answer whose question_id names no question of the exam gets no
\* feedback record, raises no error and counts neither as correct nor in
\* the denominator: total_questions is the number of questions of the
\* stored exam, and the result is the one the matching answers alone give.
C4_UnmatchedIgnored ==
    SubmitGraded =>
       LET exam == ExamOf(req.exam_id)
           matched == Matched(req.answers, exam)
           r == req.result
       IN /\ r.total_questions = Len(exam.questions)
          /\ Len(r.feedback) = Len(matched)
          /\ \A i \in 1..Len(matched) :
                /\ r.feedback[i].question_id = matched[i].question_id
                /\ r.feedback[i].user_answer = matched[i].user_answer
          /\ r.correct_answers =
                Cardinality({i \in 1..Len(matched) :
                    IsCorrect(matched[i].user_answer,
                              CorrectAnswerOf(exam, matched[i].question_id))})
          /\ req.stage = "ok" => req.status = 200

C4_Witness ==
    /\ SubmitGraded /\ req.status = 200
    /\ Len(req.answers) = 2
    /\ req.answers[1].question_id \notin QuestionIdsOf(ExamOf(req.exam_id))
    /\ req.answers[2].question_id \in QuestionIdsOf(ExamOf(req.exam_id))
    /\ req.result.correct_answers = 1
    /\ req.result.total_questions = 1

\* C5: the feedback list holds exactly one record for each question of the
\* exam that the submission answers, none twice, in submission order.
C5_OneFeedbackPerQuestion ==
    \A r \in exam_results :
       LET ids == [i \in 1..Len(r.feedback) |-> r.feedback[i].question_id]
           answered == {r.answers[i].question_id : i \in 1..Len(r.answers)}
                          \cap QuestionIdsOf(ExamOf(r.exam_id))
       IN /\ \A i, j \in 1..Len(ids) : ids[i] = ids[j] => i = j
          /\ {ids[i] : i \in 1..Len(ids)} = answered
          /\ ids = [i \in 1..Len(Matched(r.answers, ExamOf(r.exam_id))) |->
                       Matched(r.answers, ExamOf(r.exam_id))[i].question_id]

\* C6: when a create_exam request that made a temporary file has finished,
\* the file is gone, whichever way the request ended.
C6_TempFileRemoved ==
    (CreateDone /\ req.tmp # None) => req.tmp \notin files

\* the request got as far as the try block of create_exam
InTryBlock(r) == r.stage \notin {"validate", "read"}

\* the request extracts the text of the PDF: always on the text path, and
\* on the image path when no image was extracted
TextNeeded(r) == r.exam_type # "image_based" \/ r.pdf.images = <<>>

\* a generator got to the point of choosing a model
GenerationAttempted(r) ==
    /\ InTryBlock(r)
    /\ TextNeeded(r) => (r.pdf.readable /\ Strip(r.pdf.text) # <<>>)

ArraysIn(response) ==
    {response[i].doc : i \in {j \in 1..Len(response) : response[j].doc.kind = "array"}}

ItemsIn(response) ==
    UNION {{d.items[i] : i \in 1..Len(d.items)} : d \in ArraysIn(response)}

\* an element lacks a field that the conversion of its path reads
LacksField(r) ==
    IF TextNeeded(r)
    THEN \E q \in ItemsIn(r.ai.response) : ~(RequiredKeys \subseteq q.keys)
    ELSE \E q \in ItemsIn(r.ai.response) :
            /\ "image_index" \in q.keys => q.image_index \in 0..(Len(r.pdf.images) - 1)
            /\ ~({"question_text", "correct_answer"} \subseteq q.keys)

GenerationMustFail(r) ==
    \/ r.ai.avail = {}
    \/ ~r.ai.callOk
    \/ ArraysIn(r.ai.response) = {}
    \/ LacksField(r)

Stored(exam_id) == \E e \in exams : e.id = exam_id

C7_FailureIs500 ==
    (CreateDone /\ GenerationAttempted(req) /\ GenerationMustFail(req)) =>
       (req.status = 500 /\ ~Stored(req.exam_id))

C7_FailureStoresNothing ==
    (req.pc # "done" /\ req'.op = "create" /\ req'.pc = "done" /\ req'.status # 200)
       => exams' = exams

C8_ValidationIs400 ==
    (/\ CreateDone
     /\ \/ ~EndsWith(req.filename, PdfSuffix)
        \/ /\ InTryBlock(req) /\ TextNeeded(req)
           /\ req.pdf.readable /\ Strip(req.pdf.text) = <<>>)
    => (req.status = 400 /\ ~req.gen.called /\ ~Stored(req.exam_id))

\* a response the text generator can use: the array alone or in a fenced
\* block, every element with its required fields and a known question type
WellFormed(response) ==
    /\ \E d \in ArraysIn(response) :
          response \in {<<Doc(d)>>, <<Fence, NL, Doc(d), NL, Fence, NL>>}
    /\ \A q \in ItemsIn(response) :
          RequiredKeys \subseteq q.keys /\ q.question_type \in QuestionTypes

\* C9: an image_based request whose image extraction returns an empty list
\* goes on with text generation from the text of the same PDF; with
\* non-empty text, a model, a well-formed response and a working store it
\* ends with 200 and the exam, built from all elements of the response, is
\* persisted.
C9_FallbackToText ==
    (/\ CreateDone /\ InTryBlock(req)
     /\ req.exam_type = "image_based" /\ req.pdf.images = <<>>
     /\ req.pdf.readable /\ Strip(req.pdf.text) # <<>>
     /\ req.ai.avail # {} /\ req.ai.callOk /\ WellFormed(req.ai.response)
     /\ ~(req.stage = "insert"))
    => /\ req.status = 200
       /\ Stored(req.exam_id)
       /\ \A d \in ArraysIn(req.ai.response) :
             /\ Len(ExamOf(req.exam_id).questions) = Len(d.items)
             /\ \A i \in 1..Len(d.items) :
                   /\ ExamOf(req.exam_id).questions[i].correct_answer = d.items[i].correct_answer
                   /\ ExamOf(req.exam_id).questions[i].question_type = d.items[i].question_type

C9_Witness ==
    /\ CreateDone /\ req.status = 200
    /\ req.exam_type = "image_based" /\ req.pdf.images = <<>>
    /\ Stored(req.exam_id)
    /\ Len(ExamOf(req.exam_id).questions) = 1

\* C10: every exam persisted by create_exam has more than 0 and at most
\* num_questions questions.
C10_CountWithinRequest ==
    (CreateDone /\ req.status = 200) =>
       /\ Stored(req.exam_id)
       /\ Len(ExamOf(req.exam_id).questions) > 0
       /\ Len(ExamOf(req.exam_id).questions) <= req.num_questions

\* the elements of a response whose image_index names one of the images
InRange(items, images) ==
    SelectSeq(items, LAMBDA q : ImgIdx(q) \in 0..(Len(images) - 1))

\* C11: parsing an image-based response against N images drops, without an
\* error, every element whose image_index is outside 0..N-1 (too large or
\* negative), and gives every other element, in response order, the image
\* at position image_index as image_data.
C11_OutOfRangeDropped ==
    (req.op = "generate_image" /\ req.pc = "done") =>
       LET images == req.pdf.images
           kept == InRange(req.ai.response[1].doc.items, images)
       IN /\ req.gen.ok
          /\ Len(req.gen.questions) = Len(kept)
          /\ \A i \in 1..Len(kept) :
                req.gen.questions[i].image_data = images[ImgIdx(kept[i]) + 1]

\* C12: in every persisted exam a question of type image_based carries
\* image data and a question of any other type carries none, whichever
\* generator produced the exam.
C12_ImageDataByType ==
    \A e \in exams : \A i \in 1..Len(e.questions) :
       (e.questions[i].question_type = "image_based")
          <=> (e.questions[i].image_data # None)

\* whether the caller owns the exam a request names when the step begins
OwnsExam(user, exam_id) == \E e \in exams : e.id = exam_id /\ e.user_id = user

C13_DeleteStep ==
    (req.pc = "idle" /\ req'.op = "delete_exam") =>
       IF OwnsExam(req'.user, req'.id)
       THEN /\ req'.status = 200
            /\ exams' = {e \in exams : e.id # req'.id}
            /\ exam_results' = {r \in exam_results : r.exam_id # req'.id}
       ELSE /\ req'.status = 404
            /\ exams' = exams
            /\ exam_results' = exam_results

\* C13: a delete_exam request by the owner removes the exam and every
\* ExamResult stored for that exam id, and nothing else; a delete_exam
\* request for an exam that does not exist or belongs to another user is
\* answered with 404 and leaves exams and results unchanged.
C13_DeleteCascades == [][C13_DeleteStep]_vars

C13_Witness ==
    /\ req.op = "delete_exam" /\ req.pc = "done" /\ req.status = 200
    /\ req.deleted_results = 2
    /\ exams # {} /\ exam_results # {}
    /\ \A r \in exam_results : r.exam_id # req.id

OwnsResult(user, result_id) ==
    \E r \in exam_results : r.id = result_id /\ r.user_id = user

StoreUnchanged == exams' = exams /\ exam_results' = exam_results

\* the answer to a request that names a record its caller does not own is
\* the one fixed not-found answer of the endpoint, whether or not a record
\* with that id is stored
C14_NotOwnedIsNotFound ==
    LET r == req'
    IN /\ (r.op \in {"get_exam", "delete_exam"} /\ ~OwnsExam(r.user, r.id)) =>
             /\ r.status = 404 /\ r.detail = ExamNotFound /\ r.body = {}
             /\ StoreUnchanged
       /\ (r.op = "submit" /\ ~OwnsExam(r.user, r.exam_id)) =>
             /\ r.status = 404 /\ r.stage = "find"
             /\ StoreUnchanged
       /\ (r.op = "get_result" /\ ~OwnsResult(r.user, r.id)) =>
             /\ r.status = 404 /\ r.detail = ResultNotFound /\ r.body = {}
             /\ StoreUnchanged

\* what a request returns, grades, stores or removes belongs to its caller
C14_OnlyOwnRecords ==
    LET r == req'
    IN /\ r.op = "get_exams" => r.body = {e \in exams : e.user_id = r.user}
       /\ r.op = "get_results" => r.body = {x \in exam_results : x.user_id = r.user}
       /\ r.op \in {"get_exam", "get_result"} => \A d \in r.body : d.user_id = r.user
       /\ (r.op = "submit" /\ r.stage # "find") =>
             /\ OwnsExam(r.user, r.exam_id)
             /\ r.result.user_id = r.user
       /\ \A d \in (exams \ exams') \cup (exams' \ exams) : d.user_id = r.user
       /\ \A d \in (exam_results \ exam_results') \cup (exam_results' \ exam_results) :
             d.user_id = r.user

C14_Step ==
    (req.pc = "idle" /\ req'.pc = "done") =>
       (C14_NotOwnedIsNotFound /\ C14_OnlyOwnRecords)

\* C14: get_exam, delete_exam, submit_exam and get_result answer a caller
\* who does not own the named exam or result exactly as they answer an id
\* that is not stored, with the not-found answer, and leave the store
\* unchanged; get_exams and get_results return the records whose user_id
\* is the caller's and no other; no request returns, grades, stores or
\* removes a record of another user.
C14_NoOwnershipLeak == [][C14_Step]_vars

C14_Witness ==
    /\ req.op = "delete_exam" /\ req.pc = "done" /\ req.status = 404
    /\ \E e \in exams : e.id = req.id /\ e.user_id # req.user
    /\ \E r \in exam_results : r.exam_id = req.id

\* the place of a candidate in the preference order
Rank(model_name) == CHOOSE k \in 1..Len(ModelNames) : ModelNames[k] = model_name

SelectionOver(r) == r.pc \in {"selected", "calling", "parsing", "done"}

\* the step-by-step loop chooses what SelectModel chooses
SelectAgreesWithSelectModel ==
    SelectionOver(req) => req.model = SelectModel(req.avail)

\* C15: model selection tries the candidates in the fixed preference
\* order; it stops at the first candidate whose construction succeeds and
\* uses it, trying none after it; the call fails with the no-model error,
\* having sent no generation request, exactly when the construction of
\* every candidate fails; and a call sends the generation request at most
\* once: once when a model was chosen, with no retry after a failure.
C15_FirstModelOneCall ==
    /\ Len(req.tried) <= Len(ModelNames)
    /\ \A k \in 1..Len(req.tried) : req.tried[k] = ModelNames[k]
    /\ \A k \in 1..(Len(req.tried) - 1) : req.tried[k] \notin req.avail
    /\ req.calls <= 1
    /\ SelectionOver(req) =>
          IF req.avail = {}
          THEN /\ req.model = None
               /\ Len(req.tried) = Len(ModelNames)
          ELSE /\ req.model \in req.avail
               /\ \A other \in req.avail : Rank(req.model) <= Rank(other)
               /\ req.tried = SubSeq(ModelNames, 1, Rank(req.model))
    /\ req.pc = "done" =>
          /\ req.error = "no_model" <=> req.avail = {}
          /\ req.error = "no_model" => (req.status = 500 /\ req.calls = 0)
          /\ req.avail # {} => req.calls = 1

C15_Witness ==
    /\ req.pc = "done" /\ req.status = 500 /\ req.error = "call"
    /\ req.model = ModelNames[3]
    /\ req.tried = SubSeq(ModelNames, 1, 3)
    /\ ModelNames[4] \in req.avail
    /\ req.calls = 1

AllCompleted == \A q \in Requests : req[q].pc \in {"idle", "done"}

\* C16: whatever the interleaving of concurrent submit_exam and
\* delete_exam requests on one exam, once every request has completed each
\* stored ExamResult refers to an exam that is still stored.
C16_NoOrphanResult ==
    AllCompleted => \A r \in exam_results : \E e \in exams : e.id = r.exam_id

====
